---- MODULE Spec2Model ----
(***************************************************************************)
(* The Dhan market-feed client of src/lib/firebase.ts (latest revision,    *)
(* lines 289-733): one module-level WebSocket handle, a reconnect timer    *)
(* with multiplicative backoff, the batched subscription sent on open, the *)
(* binary tick decoder, the latest-value tick store and the SSE fan-out.   *)
(*                                                                         *)
(* Node runs every handler to completion, so each handler is one action.  *)
(* Delays are kept in eighths of a millisecond, which makes every value    *)
(* of 5000 * 1.5^k below the 60000 cap an integer (JavaScript doubles hold *)
(* all of them exactly).                                                   *)
(***************************************************************************)
EXTENDS Integers, Sequences, FiniteSets, TLC

\* ---------------------------------------------------------------- bounds
\* transports that closeSocket() detached and that have not finished closing
MaxDetached == 1
\* reconnect timers pending in the runtime at the same time
MaxTimers == 2
\* the counter of consecutive closes without an open saturates here
MaxRun == 3
\* instrument-list lengths of the encoder specification
MaxInstruments == 230

\* length of the instrument list in the lifecycle specification
NumInstruments == 2
\* /api/ticks requests in one behaviour
MaxClients == 1
\* messages one controller is given in one behaviour
MaxReceived == 2
\* /api/ticks requests in one behaviour of the fan-out specification
MaxSinks == 2
\* messages one controller is given in the fan-out specification
MaxDelivered == 1
\* security ids the tick store holds in the decoder specification
MaxStored == 3
\* length of the instrument lists that hold a malformed entry
MaxMalformed == 2

\* ------------------------------------------------------- program constants
NULL == 0
BATCH_SIZE == 100

Ms(n) == 8 * n

InitialDelay == Ms(5000)
MaxDelay == Ms(60000)

Min(a, b) == IF a <= b THEN a ELSE b

SocketIds == 1..(MaxDetached + 1)
TimerIds == 1..MaxTimers

\* UTC instants <<hours, minutes>> at which an open event may be handled:
\* 09:14, 09:15, 15:30 and 15:31 IST
ClockSamples == {<<3, 44>>, <<3, 45>>, <<10, 0>>, <<10, 1>>}

\* the two of them the lifecycle specification uses: 09:14 and 09:15 IST
\* every <<getUTCHours(), getUTCMinutes()>> a Date can give
AllInstants == (0..23) \X (0..59)

LifecycleClock == {<<3, 44>>, <<3, 45>>}

\* what Math.random().toString(36).substring(7) may return
ClientIds == {<<"a">>}
\* the same for the fan-out specification, "" included
SinkIds == {<<>>, <<"a">>}

\* the payloads a message event carries in the lifecycle specification: a
\* text frame, a 3-byte buffer, and a 16-byte LTP frame for security id 1
\* with price 1.0 and timestamp 1
TextData == [binary |-> FALSE, bytes |-> <<>>]
ShortFrame == [binary |-> TRUE, bytes |-> <<2, 3, 0>>]
LtpFrame ==
    [binary |-> TRUE,
     bytes |-> <<2, 16, 0, 1,  1, 0, 0, 0,  0, 0, 128, 63,  1, 0, 0, 0>>]
SampleData == {TextData, ShortFrame, LtpFrame}

\* the first n bytes of a buffer
Prefix(bytes, n) == [i \in 1..n |-> bytes[i]]

\* a 16-byte LTP frame for security id 2885 (not in the instrument list)
\* with price 2456.5 and timestamp 1700000000
UnlistedFrame ==
    [binary |-> TRUE,
     bytes |-> <<2, 16, 0, 1,  69, 11, 0, 0,  0, 136, 25, 69,
                 0, 241, 83, 101>>]

\* payloads of the fan-out specification: a string of length 16 (a string
\* is kept as its character codes), buffers of 3 and 15 bytes, and the
\* two 16-byte frames
FanoutData ==
    {[binary |-> FALSE, bytes |-> LtpFrame.bytes],
     ShortFrame, [binary |-> TRUE, bytes |-> Prefix(UnlistedFrame.bytes, 15)],
     LtpFrame, UnlistedFrame}

\* buffers of the decoder specification: the frame for id 2885 with price
\* 2456.5 and timestamp 1700000000 in each of four kinds, and frames of 16
\* and 17 bytes with price 1.0 and timestamp 2^32 - 1 for the ids 1, 2885,
\* 0, 2^31 and 2^32 - 1
Frame(kind, id, price, time, tail) ==
    [binary |-> TRUE,
     bytes |-> <<kind, 16, 0, 1>> \o id \o price \o time \o tail]
KindBytes == {2, 6, 0, 255}
IdBytes ==
    {<<1, 0, 0, 0>>, <<69, 11, 0, 0>>, <<0, 0, 0, 0>>, <<0, 0, 0, 128>>,
     <<255, 255, 255, 255>>}
TailBytes == {<<>>, <<9>>}
DecoderData ==
    {Frame(kind, <<69, 11, 0, 0>>, <<0, 136, 25, 69>>, <<0, 241, 83, 101>>,
           <<>>) : kind \in KindBytes}
    \cup {Frame(255, id, <<0, 0, 128, 63>>, <<255, 255, 255, 255>>, tail) :
            id \in IdBytes, tail \in TailBytes}

\* the LTP frame of instrument 1 at the price 2.0, one second later
LtpFrameNext ==
    Frame(2, <<1, 0, 0, 0>>, <<0, 0, 0, 64>>, <<2, 0, 0, 0>>, <<>>)

\* frames of one stream: two prices of instrument 1, an unlisted id and a
\* buffer too short to decode
StreamData == {LtpFrame, LtpFrameNext, UnlistedFrame, ShortFrame}

\* one frame of the listed instrument 1 for every value of the kind byte
KindData ==
    {Frame(kind, <<1, 0, 0, 0>>, <<0, 0, 128, 63>>, <<1, 0, 0, 0>>, <<>>) :
        kind \in 0..255}

VARIABLES
    clientId,           \* process.env.DHAN_CLIENT_ID is set
    accessToken,        \* process.env.DHAN_ACCESS_TOKEN is set
    STOCK_INSTRUMENTS,  \* the configured instrument list
    dhanSocketStarted,  \* global.__dhanSocketStarted
    ws,                 \* the module's transport handle, or NULL
    reconnectTimer,     \* the module's timer handle, or NULL
    isConnecting,
    reconnectDelay,
    sockets,            \* the WebSocket objects that are not yet closed
    timers,             \* the runtime's pending timeouts (their handles)
    tickDataStore,      \* the Map's entries, in insertion order
    sseClients,         \* client id -> controller
    controllers,        \* the stream controllers of the /api/ticks requests
    released,           \* history: the controllers whose registration was
                        \* deleted by their unsubscribe closure or by a
                        \* publish pass
    lastOp,             \* history: the handler that ran last
    lifecycle,          \* history: last of created / peer close / manual close
    runLength           \* history: closes handled since the last open

vars == <<clientId, accessToken, STOCK_INSTRUMENTS, dhanSocketStarted, ws,
          reconnectTimer, isConnecting, reconnectDelay, sockets, timers,
          tickDataStore, sseClients, controllers, released, lastOp, lifecycle,
          runLength>>

config == <<clientId, accessToken, STOCK_INSTRUMENTS>>
ticks == <<tickDataStore, sseClients, controllers>>

\* ---------------------------------------------------------------- strings
\* A decimal string is the sequence of its digits; "" is <<>>.  Other strings
\* are tuples of their literal parts.
RECURSIVE Digits(_)
Digits(n) == IF n < 10 THEN <<n>> ELSE Digits(n \div 10) \o <<n % 10>>

\* String(n) of a non-negative integer
String(n) == Digits(n)

\* String(n) of an unsigned 32-bit number kept as its halves: the decimal
\* digits by long division
RECURSIVE StringUInt32(_)
StringUInt32(n) ==
    IF n.hi = 0 THEN Digits(n.lo)
    ELSE LET mid == (n.hi % 10) * 65536 + n.lo
         IN  StringUInt32([lo |-> mid \div 10, hi |-> n.hi \div 10])
                \o <<mid % 10>>

\* ------------------------------------------------------------ instruments
\* the i-th entry the enrichment script writes: every entry it emits has a
\* securityId and an exchange
Instrument(i) ==
    [symbol |-> <<"SYM", i, ".NS">>, exchange |-> "NSE_EQ",
     securityId |-> Digits(i)]

InstrumentList(n) == [i \in 1..n |-> Instrument(i)]

\* the i-th entry as a hand-edited file can hold it: whole, without a
\* securityId or without an exchange
InstrumentForms(i) ==
    {Instrument(i),
     [Instrument(i) EXCEPT !.securityId = <<>>],
     [Instrument(i) EXCEPT !.exchange = ""]}

\* the lists of 1..n entries in which at least one entry lacks a field
MalformedLists(n) ==
    {list \in UNION {[1..k -> UNION {InstrumentForms(i) : i \in 1..n}] :
                        k \in 1..n} :
        /\ \A i \in 1..Len(list) : list[i] \in InstrumentForms(i)
        /\ \E i \in 1..Len(list) : list[i] # Instrument(i)}

Without(f, k) == [x \in DOMAIN f \ {k} |-> f[x]]

With(f, k, v) == [x \in DOMAIN f \cup {k} |-> IF x = k THEN v ELSE f[x]]

\* ------------------------------------------------------------- validation
validateEnv == clientId /\ accessToken

validateInstruments ==
    \A i \in 1..Len(STOCK_INSTRUMENTS) :
        /\ STOCK_INSTRUMENTS[i].securityId # <<>>
        /\ STOCK_INSTRUMENTS[i].exchange # ""

\* isMarketOpen() with hours + 6 as the offset
isMarketOpenLegacyPlusSix(now) ==
    LET hours == now[1] + 6
        totalMinutes == hours * 60 + now[2]
        marketOpen == 9 * 60 + 15
        marketClose == 15 * 60 + 30
    IN  totalMinutes >= marketOpen /\ totalMinutes <= marketClose

\* isMarketOpen() of the earlier revision: the offset is five whole hours
isMarketOpenLegacy(now) ==
    LET hours == now[1] + 5
        totalMinutes == hours * 60 + now[2]
        marketOpen == 9 * 60 + 15
        marketClose == 15 * 60 + 30
    IN  totalMinutes >= marketOpen /\ totalMinutes <= marketClose

\* isMarketOpen() with the closing minute left out
isMarketOpenBeforeClose(now) ==
    LET istMinutes == now[1] * 60 + now[2] + 330
        marketOpen == 9 * 60 + 15
        marketClose == 15 * 60 + 30
    IN  istMinutes >= marketOpen /\ istMinutes < marketClose

\* isMarketOpen() of the latest revision; now is <<getUTCHours(),
\* getUTCMinutes()>>
isMarketOpen(now) ==
    LET istMinutes == now[1] * 60 + now[2] + 330
        marketOpen == 9 * 60 + 15
        marketClose == 15 * 60 + 30
    IN  istMinutes >= marketOpen /\ istMinutes <= marketClose

\* ----------------------------------------------------------- subscription
SubscribeMsg(batch) ==
    [RequestCode |-> 15,
     InstrumentCount |-> Len(batch),
     InstrumentList |->
        [j \in 1..Len(batch) |->
            [ExchangeSegment |-> batch[j].exchange,
             SecurityId |-> batch[j].securityId]]]

ModeMsg == [RequestCode |-> 16, Mode |-> 1]

\* Array.prototype.slice(from, to) on a 0-based array
Slice(list, from, to) == SubSeq(list, from + 1, Min(to, Len(list)))

\* the whole list in one message, as the earlier revision sent it
SubscribeBatchesUnbatched(list, i) ==
    IF i < Len(list) THEN <<SubscribeMsg(list)>> ELSE <<>>

RECURSIVE SubscribeBatches(_, _)
SubscribeBatches(list, i) ==
    IF i < Len(list)
    THEN <<SubscribeMsg(Slice(list, i, i + BATCH_SIZE))>>
            \o SubscribeBatches(list, i + BATCH_SIZE)
    ELSE <<>>

\* subscribeToStockCodes() without the market-hours return
subscribeToStockCodesIgnoresClock(socks, now) ==
    IF ws = NULL \/ socks[ws].readyState # "OPEN" THEN <<>>
    ELSE IF ~validateInstruments THEN <<>>
    ELSE SubscribeBatches(STOCK_INSTRUMENTS, 0) \o <<ModeMsg>>

\* subscribeToStockCodes() that validates the list after its sends
subscribeToStockCodesValidatesLate(socks, now) ==
    IF ~isMarketOpen(now) THEN <<>>
    ELSE IF ws = NULL \/ socks[ws].readyState # "OPEN" THEN <<>>
    ELSE SubscribeBatches(STOCK_INSTRUMENTS, 0) \o <<ModeMsg>>

\* what subscribeToStockCodes() sends, in order, on the transport `ws`
\* refers to at the instant `now`; <<>> on each early return and when
\* validateInstruments() throws
subscribeToStockCodes(socks, now) ==
    IF ~isMarketOpen(now) THEN <<>>
    ELSE IF ws = NULL \/ socks[ws].readyState # "OPEN" THEN <<>>
    ELSE IF ~validateInstruments THEN <<>>
    ELSE SubscribeBatches(STOCK_INSTRUMENTS, 0) \o <<ModeMsg>>

\* whether subscribeToStockCodes() ends by throwing: validateInstruments()
\* runs after both early returns and before the first send
subscribeThrows(socks, now) ==
    /\ isMarketOpen(now)
    /\ ws # NULL
    /\ socks[ws].readyState = "OPEN"
    /\ ~validateInstruments

\* ------------------------------------------------------------- tick store
\* a Map.prototype.set that adds an entry without looking for the key
MapSetAppends(map, k, v) == Append(map, [key |-> k, value |-> v])

\* Map.prototype.set on a Map kept as its entries in insertion order
MapSet(map, k, v) ==
    IF \E i \in 1..Len(map) : map[i].key = k
    THEN [i \in 1..Len(map) |->
            IF map[i].key = k THEN [key |-> k, value |-> v] ELSE map[i]]
    ELSE Append(map, [key |-> k, value |-> v])

\* Map.prototype.has and Map.prototype.get (of a key the Map has)
MapHas(map, k) == \E i \in 1..Len(map) : map[i].key = k

MapGet(map, k) == map[CHOOSE i \in 1..Len(map) : map[i].key = k].value

\* the value of a parameter the caller left out
undefined == [isUndefined |-> TRUE]

\* getTickData(securityId), securityId a number or undefined: the Map itself
\* when securityId is falsy, else the Map's entry for it, which is undefined
\* when there is none
getTickData(securityId) ==
    IF securityId = undefined \/ securityId = [lo |-> 0, hi |-> 0]
    THEN [kind |-> "Map", value |-> tickDataStore]
    ELSE IF MapHas(tickDataStore, securityId)
    THEN [kind |-> "TickData", value |-> MapGet(tickDataStore, securityId)]
    ELSE [kind |-> "undefined", value |-> <<>>]

\* Array.from(map.values()) cut after the first value
MapValuesFirst(map) ==
    IF Len(map) = 0 THEN <<>> ELSE <<map[1].value>>

\* Array.from(map.values())
MapValues(map) == [i \in 1..Len(map) |-> map[i].value]

\* ------------------------------------------------------------ SSE fan-out
\* controller.enqueue(message): throws once the stream is closed
EnqueueThrows(ctl, c) == ctl[c].closed

Enqueue(ctl, c, message) ==
    IF EnqueueThrows(ctl, c) THEN ctl
    ELSE [ctl EXCEPT ![c].received = Append(@, message)]

\* subscribeToTicks that registers the client and sends it nothing
subscribeToTicksSilent(c, id) ==
    /\ sseClients' = With(sseClients, id, c)
    /\ controllers' =
         With(controllers, c,
              [closed |-> FALSE, received |-> <<>>, subId |-> id])

\* subscribeToTicks(controller) with `id` the Math.random() string; c is the
\* controller the route's stream was started with
subscribeToTicks(c, id) ==
    LET initialData == MapValues(tickDataStore)
        started == With(controllers, c,
                        [closed |-> FALSE, received |-> <<>>, subId |-> id])
    IN  /\ sseClients' = With(sseClients, id, c)
        /\ controllers' =
             IF Len(initialData) > 0
             THEN Enqueue(started, c, [type |-> "initial", data |-> initialData])
             ELSE started

\* broadcastTickData that returns at the first enqueue that throws and
\* deletes nobody
broadcastTickDataStopsAtFailure(tickData) ==
    LET message == [type |-> "tick", data |-> tickData]
        toRemove == {id \in DOMAIN sseClients :
                        EnqueueThrows(controllers, sseClients[id])}
    IN  /\ controllers' =
             IF toRemove # {} THEN controllers
             ELSE [c \in DOMAIN controllers |->
                    IF \E id \in DOMAIN sseClients : sseClients[id] = c
                    THEN [controllers[c] EXCEPT
                            !.received = Append(@, message)]
                    ELSE controllers[c]]
        /\ sseClients' = sseClients

\* broadcastTickData(tickData): one enqueue per registered client, the
\* clients whose enqueue threw are deleted after the pass
broadcastTickData(tickData) ==
    LET message == [type |-> "tick", data |-> tickData]
        toRemove == {id \in DOMAIN sseClients :
                        EnqueueThrows(controllers, sseClients[id])}
        reached == {sseClients[id] : id \in DOMAIN sseClients \ toRemove}
    IN  /\ controllers' =
             [c \in DOMAIN controllers |->
                IF c \in reached
                THEN [controllers[c] EXCEPT !.received = Append(@, message)]
                ELSE controllers[c]]
        /\ sseClients' = [id \in DOMAIN sseClients \ toRemove |-> sseClients[id]]

\* ---------------------------------------------------------------- decoder
readUInt8(buffer, offset) == buffer[offset + 1]

\* buffer.readUInt32BE in place of readUInt32LE
readUInt32BE(buffer, offset) ==
    [lo |-> buffer[offset + 4] + 256 * buffer[offset + 3],
     hi |-> buffer[offset + 2] + 256 * buffer[offset + 1]]

\* An unsigned 32-bit number n is kept as its two 16-bit halves,
\* n = lo + 65536 * hi, so that every value up to 2^32 - 1 has its own
\* representation (JavaScript numbers hold all of them exactly).
readUInt32LE(buffer, offset) ==
    [lo |-> buffer[offset + 1] + 256 * buffer[offset + 2],
     hi |-> buffer[offset + 3] + 256 * buffer[offset + 4]]

\* the IEEE-754 single at offset, as its sign, biased exponent and fraction
readFloatLE(buffer, offset) ==
    [sign |-> buffer[offset + 4] \div 128,
     exponent |-> (buffer[offset + 4] % 128) * 2 + buffer[offset + 3] \div 128,
     fraction |-> (buffer[offset + 3] % 128) * 65536
                    + buffer[offset + 2] * 256 + buffer[offset + 1]]

\* parseBinaryTick that accepts any buffer holding the 8-byte header and
\* reads the bytes it lacks as zero
parseBinaryTickHeaderOnly(buffer) ==
    LET padded == [i \in 1..16 |-> IF i <= Len(buffer) THEN buffer[i] ELSE 0]
    IN  IF Len(buffer) < 8 THEN [isNull |-> TRUE]
        ELSE [isNull |-> FALSE,
              messageType |-> readUInt8(padded, 0),
              securityId |-> readUInt32LE(padded, 4),
              price |-> readFloatLE(padded, 8),
              timestamp |-> readUInt32LE(padded, 12)]

\* parseBinaryTick(buffer); the null result for a buffer shorter than 16 bytes
parseBinaryTick(buffer) ==
    IF Len(buffer) < 16 THEN [isNull |-> TRUE]
    ELSE [isNull |-> FALSE,
          messageType |-> readUInt8(buffer, 0),
          securityId |-> readUInt32LE(buffer, 4),
          price |-> readFloatLE(buffer, 8),
          timestamp |-> readUInt32LE(buffer, 12)]

\* the lookup built at module load: the last instrument with an id wins
SECURITY_ID_TO_SYMBOL ==
    LET ids == {STOCK_INSTRUMENTS[i].securityId :
                    i \in 1..Len(STOCK_INSTRUMENTS)}
        last(id) == CHOOSE i \in 1..Len(STOCK_INSTRUMENTS) :
                        /\ STOCK_INSTRUMENTS[i].securityId = id
                        /\ \A j \in 1..Len(STOCK_INSTRUMENTS) :
                              STOCK_INSTRUMENTS[j].securityId = id => j <= i
    IN  [id \in ids |-> STOCK_INSTRUMENTS[last(id)].symbol]

\* resolveSymbol whose fallback is the 'UNKNOWN' of its first line
resolveSymbolUnknown(securityId) ==
    IF securityId = <<>> THEN <<"UNKNOWN">>
    ELSE IF securityId \in DOMAIN SECURITY_ID_TO_SYMBOL
    THEN SECURITY_ID_TO_SYMBOL[securityId]
    ELSE <<"UNKNOWN">>

resolveSymbol(securityId) ==
    IF securityId = <<>> THEN <<"UNKNOWN">>
    ELSE IF securityId \in DOMAIN SECURITY_ID_TO_SYMBOL
    THEN SECURITY_ID_TO_SYMBOL[securityId]
    ELSE <<"securityId:">> \o securityId

messageTypeLabel(messageType) ==
    IF messageType = 2 THEN <<"LTP">>
    ELSE IF messageType = 6 THEN <<"QUOTE">>
    ELSE <<"TYPE_">> \o String(messageType)

TickData(tick) ==
    [securityId |-> tick.securityId,
     symbol |-> resolveSymbol(StringUInt32(tick.securityId)),
     price |-> tick.price,
     timestamp |-> tick.timestamp,
     messageType |-> tick.messageType,
     messageTypeLabel |-> messageTypeLabel(tick.messageType)]

\* handleMessage without the Buffer.isBuffer test
handleMessageDecodesText(data) ==
    IF parseBinaryTick(data.bytes).isNull THEN UNCHANGED ticks
    ELSE LET tick == parseBinaryTick(data.bytes)
         IN  /\ tickDataStore' =
                    MapSet(tickDataStore, tick.securityId, TickData(tick))
             /\ broadcastTickData(TickData(tick))

\* handleMessage that publishes a record only when its id is new to the
\* store
handleMessageSkipsRepeats(data) ==
    IF ~data.binary THEN UNCHANGED ticks
    ELSE IF parseBinaryTick(data.bytes).isNull THEN UNCHANGED ticks
    ELSE LET tick == parseBinaryTick(data.bytes)
         IN  /\ tickDataStore' =
                    MapSet(tickDataStore, tick.securityId, TickData(tick))
             /\ IF MapHas(tickDataStore, tick.securityId)
                THEN UNCHANGED <<sseClients, controllers>>
                ELSE broadcastTickData(TickData(tick))

\* handleMessage that drops the frames whose kind is neither LTP nor QUOTE
handleMessageKnownKinds(data) ==
    IF ~data.binary THEN UNCHANGED ticks
    ELSE IF parseBinaryTick(data.bytes).isNull THEN UNCHANGED ticks
    ELSE IF parseBinaryTick(data.bytes).messageType \notin {2, 6}
    THEN UNCHANGED ticks
    ELSE LET tick == parseBinaryTick(data.bytes)
         IN  /\ tickDataStore' =
                    MapSet(tickDataStore, tick.securityId, TickData(tick))
             /\ broadcastTickData(TickData(tick))

\* handleMessage(data): text is logged, an unparsed buffer is logged, a
\* parsed tick is stored and broadcast
handleMessage(data) ==
    IF ~data.binary THEN UNCHANGED ticks
    ELSE IF parseBinaryTick(data.bytes).isNull THEN UNCHANGED ticks
    ELSE LET tick == parseBinaryTick(data.bytes)
         IN  /\ tickDataStore' =
                    MapSet(tickDataStore, tick.securityId, TickData(tick))
             /\ broadcastTickData(TickData(tick))

\* -------------------------------------------------------------- lifecycle
FreshSocket == CHOOSE t \in SocketIds : t \notin DOMAIN sockets /\
                   \A u \in SocketIds : u \notin DOMAIN sockets => t <= u

FreshTimer == CHOOSE h \in TimerIds : h \notin timers /\
                  \A u \in TimerIds : u \notin timers => h <= u

NewSocket == [readyState |-> "CONNECTING", listeners |-> TRUE, sent |-> <<>>]

\* history record of a handler run: its name, whether it created a transport,
\* the delay it passed to setTimeout (NULL when it set no timer), the
\* instant it read from the clock (<<>> when it read none) and whether it
\* ended by throwing
OpAt(op, created, delay, now) ==
    [op |-> op, created |-> created, delay |-> delay, now |-> now,
     data |-> <<>>, removed |-> {}, threw |-> FALSE]

\* the history record of a handler run that ended in a throw
Thrown(op, now) == [OpAt(op, FALSE, NULL, now) EXCEPT !.threw = TRUE]

Op(op, created, delay) == OpAt(op, created, delay, <<>>)

\* the history record of a message handler run: data is the payload it was
\* given (<<>> in the record of every other handler), removed the client
\* ids it deleted from the registry
OpOn(data, removed) ==
    [Op("message", FALSE, NULL) EXCEPT !.data = data, !.removed = removed]


\* connectWebSocket() whose guard forgets the transport handle
connectWebSocketNoHandleGuard(op) ==
    IF isConnecting \/ ~validateEnv
    THEN /\ UNCHANGED <<ws, isConnecting, sockets, lifecycle>>
         /\ UNCHANGED released
         /\ lastOp' = Op(op, FALSE, NULL)
    ELSE /\ isConnecting' = TRUE
         /\ ws' = FreshSocket
         /\ sockets' = With(sockets, FreshSocket, NewSocket)
         /\ lifecycle' = "running"
         /\ UNCHANGED released
         /\ lastOp' = Op(op, TRUE, NULL)

\* connectWebSocket() that raises the connecting flag before validateEnv()
connectWebSocketFlagFirst(op) ==
    IF isConnecting \/ ws # NULL
    THEN /\ UNCHANGED <<ws, isConnecting, sockets, lifecycle>>
         /\ UNCHANGED released
         /\ lastOp' = Op(op, FALSE, NULL)
    ELSE IF ~validateEnv
    THEN /\ isConnecting' = TRUE
         /\ UNCHANGED <<ws, sockets, lifecycle>>
         /\ UNCHANGED released
         /\ lastOp' = Thrown(op, <<>>)
    ELSE /\ isConnecting' = TRUE
         /\ ws' = FreshSocket
         /\ sockets' = With(sockets, FreshSocket, NewSocket)
         /\ lifecycle' = "running"
         /\ UNCHANGED released
         /\ lastOp' = Op(op, TRUE, NULL)

\* connectWebSocket(): guard, validateEnv() (throws before any assignment),
\* then the transport is created with its four handlers attached
connectWebSocket(op) ==
    IF isConnecting \/ ws # NULL
    THEN /\ UNCHANGED <<ws, isConnecting, sockets, lifecycle>>
         /\ UNCHANGED released
         /\ lastOp' = Op(op, FALSE, NULL)
    ELSE IF ~validateEnv
    THEN /\ UNCHANGED <<ws, isConnecting, sockets, lifecycle>>
         /\ UNCHANGED released
         /\ lastOp' = Thrown(op, <<>>)
    ELSE /\ isConnecting' = TRUE
         /\ ws' = FreshSocket
         /\ sockets' = With(sockets, FreshSocket, NewSocket)
         /\ lifecycle' = "running"
         /\ UNCHANGED released
         /\ lastOp' = Op(op, TRUE, NULL)

initDhanSocket(op) ==
    IF ws = NULL /\ ~isConnecting
    THEN connectWebSocket(op)
    ELSE /\ UNCHANGED <<ws, isConnecting, sockets, lifecycle>>
         /\ UNCHANGED released
         /\ lastOp' = Op(op, FALSE, NULL)

\* module load: the auto-init block at the end of the module
AutoInit ==
    /\ ~dhanSocketStarted
    /\ dhanSocketStarted' = TRUE
    /\ initDhanSocket("autoInit")
    /\ UNCHANGED <<config, reconnectTimer, reconnectDelay, timers, ticks,
                   runLength>>

\* the health route's module-level call and the start route's GET
ExternalInit ==
    /\ dhanSocketStarted
    /\ initDhanSocket("initDhanSocket")
    /\ UNCHANGED <<config, dhanSocketStarted, reconnectTimer, reconnectDelay,
                   timers, ticks, runLength>>

\* ws.on('open', ...) of transport t, handled at the instant `now`
OpenHandler(t, now) ==
    LET opened == [sockets EXCEPT ![t].readyState = "OPEN"]
        msgs == subscribeToStockCodes(opened, now)
    IN  /\ isConnecting' = FALSE
        /\ reconnectDelay' = InitialDelay
        /\ sockets' = IF msgs = <<>> THEN opened
                      ELSE [opened EXCEPT ![ws].sent = @ \o msgs]
        /\ runLength' = 0
        /\ UNCHANGED <<ws, reconnectTimer, timers, ticks, lifecycle>>

OpenEvent(t, now) ==
    /\ sockets[t].readyState = "CONNECTING"
    /\ IF sockets[t].listeners
       THEN OpenHandler(t, now)
       ELSE /\ sockets' = [sockets EXCEPT ![t].readyState = "OPEN"]
            /\ UNCHANGED <<ws, reconnectTimer, isConnecting, reconnectDelay,
                           timers, ticks, lifecycle, runLength>>
    /\ UNCHANGED released
    /\ lastOp' = IF ~sockets[t].listeners THEN Op("open", FALSE, NULL)
                  ELSE IF subscribeThrows(
                              [sockets EXCEPT ![t].readyState = "OPEN"], now)
                  THEN Thrown("open", now)
                  ELSE OpAt("open", FALSE, NULL, now)
    /\ UNCHANGED <<config, dhanSocketStarted>>

\* an error handler that schedules a reconnect, as the close handler does
ErrorHandlerReconnects(t) ==
    /\ Cardinality(timers) < MaxTimers
    /\ reconnectTimer' = FreshTimer
    /\ timers' = timers \cup {FreshTimer}
    /\ UNCHANGED <<ws, isConnecting, reconnectDelay, sockets, ticks,
                   lifecycle, runLength>>

\* an error handler that tries the subscription again
ErrorHandlerResubscribes(t) ==
    /\ sockets' =
         IF ws = NULL THEN sockets
         ELSE [sockets EXCEPT
                 ![ws].sent = @ \o subscribeToStockCodes(sockets, <<3, 45>>)]
    /\ UNCHANGED <<ws, reconnectTimer, isConnecting, reconnectDelay,
                   timers, ticks, lifecycle, runLength>>

\* ws.on('error', ...): logs only
ErrorHandler(t) ==
    UNCHANGED <<ws, reconnectTimer, isConnecting, reconnectDelay, sockets,
                timers, ticks, lifecycle, runLength>>

ErrorEvent(t) ==
    /\ sockets[t].listeners
    /\ ErrorHandler(t)
    /\ UNCHANGED released
    /\ lastOp' = Op("error", FALSE, NULL)
    /\ UNCHANGED <<config, dhanSocketStarted>>

\* the peer starts the closing handshake: readyState becomes CLOSING, no
\* handler runs
PeerClosing(t) ==
    /\ sockets[t].readyState = "OPEN"
    /\ sockets' = [sockets EXCEPT ![t].readyState = "CLOSING"]
    /\ UNCHANGED released
    /\ lastOp' = Op("closing", FALSE, NULL)
    /\ UNCHANGED <<config, dhanSocketStarted, ws, reconnectTimer,
                   isConnecting, reconnectDelay, timers, ticks, lifecycle,
                   runLength>>

\* a close handler that clears the handle and sets no timer
CloseHandlerNoTimer(t) ==
    /\ ws' = NULL
    /\ isConnecting' = FALSE
    /\ lifecycle' = "lost"
    /\ runLength' = Min(runLength + 1, MaxRun)
    /\ UNCHANGED <<reconnectTimer, timers, reconnectDelay, ticks>>

\* ws.on('close', ...): clears the handle and schedules the reconnect
CloseHandler(t) ==
    /\ ws' = NULL
    /\ isConnecting' = FALSE
    /\ reconnectTimer' = FreshTimer
    /\ timers' = timers \cup {FreshTimer}
    /\ lifecycle' = "lost"
    /\ runLength' = Min(runLength + 1, MaxRun)
    /\ UNCHANGED <<reconnectDelay, ticks>>

CloseEvent(t) ==
    /\ sockets[t].listeners => Cardinality(timers) < MaxTimers
    /\ sockets' = Without(sockets, t)
    /\ IF sockets[t].listeners
       THEN CloseHandler(t)
       ELSE UNCHANGED <<ws, reconnectTimer, isConnecting, reconnectDelay,
                        timers, ticks, lifecycle, runLength>>
    /\ UNCHANGED released
    /\ lastOp' = Op("close", FALSE,
                    IF sockets[t].listeners THEN reconnectDelay ELSE NULL)
    /\ UNCHANGED <<config, dhanSocketStarted>>

\* a timer callback that multiplies without the cap
TimerCallbackUncapped ==
    /\ reconnectDelay' = (reconnectDelay * 3) \div 2
    /\ connectWebSocket("timer")

\* the setTimeout callback of the close handler
TimerCallback ==
    /\ reconnectDelay' = Min((reconnectDelay * 3) \div 2, MaxDelay)
    /\ connectWebSocket("timer")

TimerFire(h) ==
    /\ h \in timers
    /\ timers' = timers \ {h}
    /\ TimerCallback
    /\ UNCHANGED <<config, dhanSocketStarted, reconnectTimer, ticks,
                   runLength>>

\* closeSocket() that also clears the tick store
closeSocketClearsStore ==
    /\ reconnectTimer # NULL => timers' = timers \ {reconnectTimer}
    /\ reconnectTimer = NULL => timers' = timers
    /\ reconnectTimer' = NULL
    /\ isConnecting' = FALSE
    /\ IF ws # NULL
       THEN /\ sockets' = [sockets EXCEPT ![ws].listeners = FALSE,
                                          ![ws].readyState = "CLOSING"]
            /\ ws' = NULL
       ELSE UNCHANGED <<ws, sockets>>
    /\ lifecycle' = "stopped"
    /\ tickDataStore' = <<>>
    /\ UNCHANGED <<reconnectDelay, sseClients, controllers, runLength>>

\* closeSocket() without removeAllListeners()
closeSocketKeepsListeners ==
    /\ reconnectTimer # NULL => timers' = timers \ {reconnectTimer}
    /\ reconnectTimer = NULL => timers' = timers
    /\ reconnectTimer' = NULL
    /\ isConnecting' = FALSE
    /\ IF ws # NULL
       THEN /\ sockets' = [sockets EXCEPT ![ws].readyState = "CLOSING"]
            /\ ws' = NULL
       ELSE UNCHANGED <<ws, sockets>>
    /\ lifecycle' = "stopped"
    /\ UNCHANGED <<reconnectDelay, ticks, runLength>>

\* closeSocket(): clears the timer the handle names, detaches and closes
\* the transport
closeSocket ==
    /\ reconnectTimer # NULL => timers' = timers \ {reconnectTimer}
    /\ reconnectTimer = NULL => timers' = timers
    /\ reconnectTimer' = NULL
    /\ isConnecting' = FALSE
    /\ IF ws # NULL
       THEN /\ sockets' = [sockets EXCEPT ![ws].listeners = FALSE,
                                          ![ws].readyState = "CLOSING"]
            /\ ws' = NULL
       ELSE UNCHANGED <<ws, sockets>>
    /\ lifecycle' = "stopped"
    /\ UNCHANGED <<reconnectDelay, ticks, runLength>>

ManualClose ==
    /\ dhanSocketStarted
    /\ ws # NULL =>
         Cardinality({t \in DOMAIN sockets : ~sockets[t].listeners})
            < MaxDetached
    /\ closeSocket
    /\ UNCHANGED released
    /\ lastOp' = Op("closeSocket", FALSE, NULL)
    /\ UNCHANGED <<config, dhanSocketStarted>>

\* getSocketStatus()
getSocketStatus ==
    IF ws = NULL
    THEN IF isConnecting THEN "connecting" ELSE "not_initialized"
    ELSE IF sockets[ws].readyState = "OPEN" THEN "open"
    ELSE IF sockets[ws].readyState = "CONNECTING" THEN "connecting"
    ELSE "closed"

\* every controller has been given fewer than n messages
RoomToReceive(n) ==
    \A c \in DOMAIN controllers : Len(controllers[c].received) < n

\* fewer than n /api/ticks requests were made
RoomToRequest(n) == Len(controllers) < n

\* ws.on('message', handleMessage)
MessageEvent(t, data) ==
    /\ sockets[t].readyState \in {"OPEN", "CLOSING"}
    /\ IF sockets[t].listeners
       THEN handleMessage(data)
       ELSE UNCHANGED ticks
    /\ released' = released \cup
         {sseClients[id] : id \in DOMAIN sseClients \ DOMAIN sseClients'}
    /\ lastOp' = OpOn(data, DOMAIN sseClients \ DOMAIN sseClients')
    /\ UNCHANGED <<config, dhanSocketStarted, ws, reconnectTimer,
                   isConnecting, reconnectDelay, sockets, timers, lifecycle,
                   runLength>>

\* GET /api/ticks: the stream's start(controller) calls subscribeToTicks
TicksRequest(id) ==
    /\ subscribeToTicks(Len(controllers) + 1, id)
    /\ UNCHANGED released
    /\ lastOp' = Op("subscribeToTicks", FALSE, NULL)
    /\ UNCHANGED <<config, dhanSocketStarted, ws, reconnectTimer,
                   isConnecting, reconnectDelay, sockets, timers,
                   tickDataStore, lifecycle, runLength>>

\* the closure subscribeToTicks returned to the request of controller c,
\* called by the stream's cancel() or by a failed heartbeat
Unsubscribe(c) ==
    /\ sseClients' = Without(sseClients, controllers[c].subId)
    /\ released' = released \cup {c}
    /\ lastOp' = Op("unsubscribe", FALSE, NULL)
    /\ UNCHANGED <<config, dhanSocketStarted, ws, reconnectTimer,
                   isConnecting, reconnectDelay, sockets, timers,
                   tickDataStore, controllers, lifecycle, runLength>>

\* the consumer of controller c goes away: enqueue throws from now on
ControllerClose(c) ==
    /\ ~controllers[c].closed
    /\ controllers' = [controllers EXCEPT ![c].closed = TRUE]
    /\ UNCHANGED released
    /\ lastOp' = Op("controllerClose", FALSE, NULL)
    /\ UNCHANGED <<config, dhanSocketStarted, ws, reconnectTimer,
                   isConnecting, reconnectDelay, sockets, timers,
                   tickDataStore, sseClients, lifecycle, runLength>>

\* ------------------------------------------------------------------ specs
InitState ==
    /\ dhanSocketStarted = FALSE
    /\ ws = NULL
    /\ reconnectTimer = NULL
    /\ isConnecting = FALSE
    /\ reconnectDelay = InitialDelay
    /\ sockets = <<>>
    /\ timers = {}
    /\ tickDataStore = <<>>
    /\ sseClients = <<>>
    /\ controllers = <<>>
    /\ released = {}
    /\ lastOp = Op("load", FALSE, NULL)
    /\ lifecycle = "initial"
    /\ runLength = 0

Init ==
    /\ clientId \in BOOLEAN
    /\ accessToken \in BOOLEAN
    /\ STOCK_INSTRUMENTS = InstrumentList(NumInstruments)
    /\ InitState

Next ==
    \/ AutoInit
    \/ ExternalInit
    \/ \E t \in DOMAIN sockets, now \in LifecycleClock : OpenEvent(t, now)
    \/ \E t \in DOMAIN sockets : ErrorEvent(t)
    \/ \E t \in DOMAIN sockets : PeerClosing(t)
    \/ \E t \in DOMAIN sockets : CloseEvent(t)
    \/ \E h \in timers : TimerFire(h)
    \/ ManualClose
    \/ \E t \in DOMAIN sockets, data \in SampleData :
          RoomToReceive(MaxReceived) /\ MessageEvent(t, data)
    \/ \E id \in ClientIds : RoomToRequest(MaxClients) /\ TicksRequest(id)
    \/ \E c \in DOMAIN controllers : Unsubscribe(c)
    \/ \E c \in DOMAIN controllers : ControllerClose(c)

Spec == Init /\ [][Next]_vars

\* the connection lifecycle alone: no frame arrives and nobody subscribes
NextLifecycle ==
    \/ AutoInit
    \/ ExternalInit
    \/ \E t \in DOMAIN sockets, now \in LifecycleClock : OpenEvent(t, now)
    \/ \E t \in DOMAIN sockets : ErrorEvent(t)
    \/ \E t \in DOMAIN sockets : PeerClosing(t)
    \/ \E t \in DOMAIN sockets : CloseEvent(t)
    \/ \E h \in timers : TimerFire(h)
    \/ ManualClose

SpecLifecycle == Init /\ [][NextLifecycle]_vars

\* the feed: every handler but the routes' later initDhanSocket() calls, so
\* that transports are reconnected by the timer alone, with frames arriving
\* and /api/ticks clients coming and going
NextFeed ==
    \/ AutoInit
    \/ \E t \in DOMAIN sockets, now \in LifecycleClock : OpenEvent(t, now)
    \/ \E t \in DOMAIN sockets : ErrorEvent(t)
    \/ \E t \in DOMAIN sockets : PeerClosing(t)
    \/ \E t \in DOMAIN sockets : CloseEvent(t)
    \/ \E h \in timers : TimerFire(h)
    \/ ManualClose
    \/ \E t \in DOMAIN sockets, data \in SampleData :
          RoomToReceive(MaxReceived) /\ MessageEvent(t, data)
    \/ \E id \in ClientIds : RoomToRequest(MaxClients) /\ TicksRequest(id)
    \/ \E c \in DOMAIN controllers : Unsubscribe(c)
    \/ \E c \in DOMAIN controllers : ControllerClose(c)

SpecFeed == Init /\ [][NextFeed]_vars

\* credentials set and a well-formed instrument list
InitTicks ==
    /\ clientId = TRUE
    /\ accessToken = TRUE
    /\ STOCK_INSTRUMENTS = InstrumentList(NumInstruments)
    /\ InitState

\* the fan-out on one connection that stays up: frames arrive while
\* /api/ticks clients subscribe, go away and unsubscribe
NextFanout ==
    \/ AutoInit
    \/ \E t \in DOMAIN sockets : OpenEvent(t, <<3, 45>>)
    \/ \E t \in DOMAIN sockets, data \in FanoutData :
          RoomToReceive(MaxDelivered) /\ MessageEvent(t, data)
    \/ \E id \in SinkIds : RoomToRequest(MaxSinks) /\ TicksRequest(id)
    \/ \E c \in DOMAIN controllers : Unsubscribe(c)
    \/ \E c \in DOMAIN controllers : ControllerClose(c)

SpecFanout == InitTicks /\ [][NextFanout]_vars

\* the store has room for the security id of a frame: it holds the id, or
\* fewer than n ids
RoomToStore(data, n) ==
    \/ Len(tickDataStore) < n
    \/ MapHas(tickDataStore, readUInt32LE(data.bytes, 4))

\* the decoder and the store on one connection that stays up, with no
\* /api/ticks client
NextDecoder ==
    \/ AutoInit
    \/ \E t \in DOMAIN sockets : OpenEvent(t, <<3, 45>>)
    \/ \E t \in DOMAIN sockets, data \in DecoderData :
          RoomToStore(data, MaxStored) /\ MessageEvent(t, data)

SpecDecoder == InitTicks /\ [][NextDecoder]_vars

\* the subscription on open, for every instrument-list length
InitSubscribe ==
    /\ clientId = TRUE
    /\ accessToken = TRUE
    /\ \E n \in 0..MaxInstruments : STOCK_INSTRUMENTS = InstrumentList(n)
    /\ InitState

NextSubscribe ==
    \/ AutoInit
    \/ \E t \in DOMAIN sockets, now \in ClockSamples : OpenEvent(t, now)
    \/ \E t \in DOMAIN sockets : PeerClosing(t)

SpecSubscribe == InitSubscribe /\ [][NextSubscribe]_vars

\* the whole lifecycle, with frames arriving on every transport that can
\* emit them and no /api/ticks client
NextHandover ==
    \/ NextLifecycle
    \/ \E t \in DOMAIN sockets : MessageEvent(t, LtpFrame)

SpecHandover == Init /\ [][NextHandover]_vars

\* a stream of frames on one connection that stays up, each /api/ticks
\* client being given several messages
NextStream ==
    \/ AutoInit
    \/ \E t \in DOMAIN sockets : OpenEvent(t, <<3, 45>>)
    \/ \E t \in DOMAIN sockets, data \in StreamData :
          RoomToReceive(MaxReceived) /\ MessageEvent(t, data)
    \/ \E id \in ClientIds : RoomToRequest(MaxClients) /\ TicksRequest(id)
    \/ \E c \in DOMAIN controllers : Unsubscribe(c)
    \/ \E c \in DOMAIN controllers : ControllerClose(c)

SpecStream == InitTicks /\ [][NextStream]_vars

\* the feed keeps to the kind byte of the first frame it sent
SameKind(data) ==
    IF tickDataStore = <<>> THEN TRUE
    ELSE data.bytes[1] = tickDataStore[1].value.messageType

\* frames of every kind on one connection that stays up, with /api/ticks
\* clients subscribing before and after them
NextKinds ==
    \/ AutoInit
    \/ \E t \in DOMAIN sockets : OpenEvent(t, <<3, 45>>)
    \/ \E t \in DOMAIN sockets, data \in KindData :
          /\ SameKind(data)
          /\ RoomToReceive(MaxDelivered)
          /\ MessageEvent(t, data)
    \/ \E id \in ClientIds : RoomToRequest(MaxClients) /\ TicksRequest(id)

SpecKinds == InitTicks /\ [][NextKinds]_vars

\* one connection opened at any minute of the UTC day
NextClock ==
    \/ AutoInit
    \/ \E t \in DOMAIN sockets, now \in AllInstants : OpenEvent(t, now)

SpecClock == InitTicks /\ [][NextClock]_vars

\* credentials set and an instrument list with a malformed entry
InitMalformed ==
    /\ clientId = TRUE
    /\ accessToken = TRUE
    /\ STOCK_INSTRUMENTS \in MalformedLists(MaxMalformed)
    /\ InitState

\* the connection's own events with such a list: the transport opens in and
\* out of market hours, is closed by the peer and reconnected by the timer
NextMalformed ==
    \/ AutoInit
    \/ \E t \in DOMAIN sockets, now \in ClockSamples : OpenEvent(t, now)
    \/ \E t \in DOMAIN sockets : PeerClosing(t)
    \/ \E t \in DOMAIN sockets : CloseEvent(t)
    \/ \E h \in timers : TimerFire(h)

SpecMalformed == InitMalformed /\ [][NextMalformed]_vars

\* the lifecycle under the assumption that a scheduled timer eventually fires
FairLifecycle ==
    SpecLifecycle /\ \A h \in TimerIds : WF_vars(TimerFire(h))

\* ----------------------------------------------------------------- claims
AttachedTransports == {t \in DOMAIN sockets : sockets[t].listeners}

\* C1: at most one transport with handlers attached exists at any time, it
\* is the one the handle names, and no step taken while a handle exists or a
\* connect is in progress creates a transport.
C1_SingleTransport ==
    /\ [](Cardinality(AttachedTransports) <= 1 /\ AttachedTransports \subseteq {ws})
    /\ [][(ws # NULL \/ isConnecting) => DOMAIN sockets' \subseteq DOMAIN sockets]_vars

\* a timer fired while a transport existed and its connect call created none
C1_Witness == lastOp.op = "timer" /\ ~lastOp.created /\ ws # NULL

\* C2 (as claimed): once closeSocket() has returned, a transport is created
\* only by an external initDhanSocket() call.
C2_StoppedUntilExternalInit ==
    [][lifecycle = "stopped" /\ ws' # NULL => lastOp'.op = "initDhanSocket"]_vars

\* C3: while the last lifecycle event is a handled close, a reconnect timer
\* is pending, and that state leads to a new transport (or to closeSocket()).
C3_CloseLeadsToReconnect ==
    /\ [](lifecycle = "lost" => timers # {})
    /\ (lifecycle = "lost") ~> (lifecycle \in {"running", "stopped"})

\* the timer of a handled close created the next transport
C3_Witness ==
    lifecycle = "running" /\ lastOp.op = "timer" /\ lastOp.created
        /\ runLength > 0

\* min(5000 * 1.5^k, 60000) in eighths of a millisecond
BackoffDelay(k) ==
    IF Ms(5000) * 3^k >= MaxDelay * 2^k THEN MaxDelay
    ELSE (Ms(5000) * 3^k) \div 2^k

\* C4 (as claimed): the k-th close of a run of closes without an open
\* schedules its reconnect with min(5000 * 1.5^k, 60000) ms.
C4_BackoffSequence ==
    lastOp.op = "close" /\ lastOp.delay # NULL /\ runLength < MaxRun
        => lastOp.delay = BackoffDelay(runLength - 1)

\* C5 (as claimed): the close of a transport that had opened schedules its
\* reconnect with exactly 5000 ms.
C5_DelayAfterOpen ==
    [][\A t \in DOMAIN sockets :
          /\ sockets[t].listeners
          /\ sockets[t].readyState \in {"OPEN", "CLOSING"}
          /\ t \notin DOMAIN sockets'
          => lastOp'.delay = InitialDelay]_vars

\* C6 (as claimed): at most one reconnect timer is pending.
C6_OnePendingTimer == Cardinality(timers) <= 1

\* C7: the delay stays within [5000, 60000] ms, and leaves 60000 only by an
\* open event, which sets it to 5000.
C7_DelayBounds ==
    /\ [](InitialDelay <= reconnectDelay /\ reconnectDelay <= MaxDelay)
    /\ [][reconnectDelay = MaxDelay /\ reconnectDelay' # MaxDelay
            => lastOp'.op = "open" /\ reconnectDelay' = InitialDelay]_vars

\* a timer callback ran with the delay at the cap
C7_Witness == reconnectDelay = MaxDelay /\ lastOp.op = "timer"

\* C8: a step that handles an error event leaves the handle, the connecting
\* flag, the delay, the timers, the transports, the tick store and the
\* subscriber registry as they were.
C8_ErrorChangesNothing ==
    [][lastOp'.op = "error" =>
         UNCHANGED <<ws, isConnecting, reconnectDelay, reconnectTimer, timers,
                     sockets, tickDataStore, sseClients, controllers>>]_vars

\* an error was handled with a record stored and a subscriber registered
C8_Witness ==
    /\ lastOp.op = "error"
    /\ ws # NULL
    /\ Len(tickDataStore) > 0
    /\ DOMAIN sseClients # {}

\* the wall-clock minute of the day at UTC+5:30 lies in 09:15..15:30
TradingHours(now) ==
    LET ist == (now[1] * 60 + now[2] + 5 * 60 + 30) % (24 * 60)
    IN  ist \in (9 * 60 + 15)..(15 * 60 + 30)

RECURSIVE Flatten(_)
Flatten(lists) ==
    IF lists = <<>> THEN <<>> ELSE Head(lists) \o Flatten(Tail(lists))

\* C9: right after an open event is handled, outside trading hours nothing
\* has been sent and the transport is open; within them the last message is
\* the only mode-set (RequestCode 16, Mode 1), every message before it is a
\* subscribe, and their instrument lists in send order give the configured
\* list in its order.
C9_SubscribeOnOpen ==
    lastOp.op = "open" /\ lastOp.now # <<>> =>
        LET sent == sockets[ws].sent
            n == Len(sent)
        IN  IF ~TradingHours(lastOp.now)
            THEN sent = <<>> /\ sockets[ws].readyState = "OPEN"
            ELSE /\ n >= 1
                 /\ sent[n].RequestCode = 16 /\ sent[n].Mode = 1
                 /\ \A i \in 1..(n - 1) : sent[i].RequestCode = 15
                 /\ Flatten([i \in 1..(n - 1) |-> sent[i].InstrumentList])
                      = [j \in 1..Len(STOCK_INSTRUMENTS) |->
                           [ExchangeSegment |-> STOCK_INSTRUMENTS[j].exchange,
                            SecurityId |-> STOCK_INSTRUMENTS[j].securityId]]

\* an open handled within trading hours with more than one batch sent
C9_Witness ==
    /\ lastOp.op = "open" /\ lastOp.now = <<3, 45>>
    /\ Len(sockets[ws].sent) >= 3

\* C10: for a list of n instruments the subscription is ceil(n/100)
\* subscribe messages, the i-th carrying instruments 100(i-1)+1 .. min(100i, n)
\* with InstrumentCount the length of its list, then one mode-set message.
C10_BatchSizes ==
    lastOp.op = "open" /\ lastOp.now # <<>> /\ TradingHours(lastOp.now) =>
        LET sent == sockets[ws].sent
            n == Len(STOCK_INSTRUMENTS)
            k == (n + 99) \div 100
            size(i) == IF i < k THEN 100 ELSE n - 100 * (k - 1)
        IN  /\ Len(sent) = k + 1
            /\ \A i \in 1..k :
                  /\ sent[i].RequestCode = 15
                  /\ sent[i].InstrumentCount = size(i)
                  /\ Len(sent[i].InstrumentList) = size(i)
                  /\ \A j \in 1..size(i) :
                        sent[i].InstrumentList[j].SecurityId
                            = STOCK_INSTRUMENTS[100 * (i - 1) + j].securityId
            /\ sent[k + 1] = ModeMsg

\* 220 instruments went out as batches of 100, 100 and 20 and a mode-set
C10_Witness ==
    /\ lastOp.op = "open"
    /\ Len(STOCK_INSTRUMENTS) = 220
    /\ Len(sockets[ws].sent) = 4
    /\ sockets[ws].sent[1].InstrumentCount = 100
    /\ sockets[ws].sent[2].InstrumentCount = 100
    /\ sockets[ws].sent[3].InstrumentCount = 20
    /\ sockets[ws].sent[4].RequestCode = 16

\* ------------------------------------------------------------------ frames
\* the variables of the connection: handle, flags, timer, delay, transports
connection ==
    <<ws, isConnecting, reconnectTimer, reconnectDelay, sockets, timers>>

\* some registered sink's stream is still open
LiveSink ==
    \E id \in DOMAIN sseClients : ~controllers[sseClients[id]].closed

\* C11: handling a Buffer shorter than 16 bytes, whatever it holds, changes
\* neither the tick store, the registry, the connection (handle, state,
\* timer, delay) nor what any subscriber has been given.
C11_ShortFrameDropped ==
    [][(/\ lastOp'.op = "message"
        /\ lastOp'.data.binary
        /\ Len(lastOp'.data.bytes) < 16)
       => UNCHANGED <<ticks, connection>>]_vars

\* a 15-byte buffer was handled while a sink with an open stream was
\* registered
C11_Witness ==
    /\ lastOp.op = "message"
    /\ lastOp.data.binary /\ Len(lastOp.data.bytes) = 15
    /\ ws # NULL /\ sockets[ws].listeners
    /\ LiveSink

\* C12: handling a payload that is not a Buffer, whatever its length or
\* content, writes nothing to the tick store and gives no subscriber a
\* message.
C12_TextNotDecoded ==
    [][(lastOp'.op = "message" /\ ~lastOp'.data.binary)
       => UNCHANGED ticks]_vars

\* a 16-character string was handled while a sink with an open stream was
\* registered
C12_Witness ==
    /\ lastOp.op = "message"
    /\ ~lastOp.data.binary /\ Len(lastOp.data.bytes) = 16
    /\ ws # NULL /\ sockets[ws].listeners
    /\ LiveSink

\* ----------------------------------------------------------------- decoder
\* the number whose halves are lo and hi
UInt32(lo, hi) == [lo |-> lo, hi |-> hi]

\* the frame handled last is a Buffer of 16 bytes or more and the transport
\* it came from had its handlers attached
FrameHandled ==
    /\ lastOp.op = "message"
    /\ lastOp.data.binary
    /\ Len(lastOp.data.bytes) >= 16
    /\ \A t \in DOMAIN sockets : sockets[t].listeners

\* C13: a buffer of 16 bytes or more is decoded: the record made of it has
\* frameKind = byte 0, securityId = b4 + 256*b5 + 65536*b6 + 16777216*b7,
\* epochSeconds = the same of bytes 12..15, and price = the IEEE-754 single
\* of bytes 8..11 (sign, biased exponent, 23-bit fraction); the bytes
\* 69 11 0 0 give the id 2885, 0 241 83 101 the time 1700000000 and
\* 0 136 25 69 the price 2456.5 = 4913 / 2.
C13_DecodedFields ==
    FrameHandled =>
        LET b == lastOp.data.bytes
            id == UInt32(b[5] + 256 * b[6], b[7] + 256 * b[8])
        IN  /\ MapHas(tickDataStore, id)
            /\ LET rec == MapGet(tickDataStore, id)
               IN  /\ rec.messageType = b[1]
                   /\ rec.securityId = id
                   /\ rec.timestamp =
                        UInt32(b[13] + 256 * b[14], b[15] + 256 * b[16])
                   /\ rec.price.sign = b[12] \div 128
                   /\ rec.price.exponent =
                        2 * (b[12] % 128) + b[11] \div 128
                   /\ rec.price.fraction =
                        65536 * (b[11] % 128) + 256 * b[10] + b[9]
                   /\ (<<b[5], b[6], b[7], b[8]>> = <<69, 11, 0, 0>>
                        => /\ rec.securityId.lo + 65536 * rec.securityId.hi
                                = 2885
                           /\ StringUInt32(rec.securityId) = <<2, 8, 8, 5>>)
                   /\ (<<b[5], b[6], b[7], b[8]>> = <<255, 255, 255, 255>>
                        => StringUInt32(rec.securityId)
                                = <<4, 2, 9, 4, 9, 6, 7, 2, 9, 5>>)
                   /\ (<<b[13], b[14], b[15], b[16]>> = <<0, 241, 83, 101>>
                        => rec.timestamp.lo + 65536 * rec.timestamp.hi
                                = 1700000000)
                   /\ (<<b[9], b[10], b[11], b[12]>> = <<0, 136, 25, 69>>
                        => /\ rec.price.sign = 0
                           /\ 2 * (8388608 + rec.price.fraction)
                                = 4913 * 4096
                           /\ rec.price.exponent = 150 - 12)

\* the 16-byte frame of kind 2 with id 2885, price 2456.5 and time
\* 1700000000 was decoded, and so was a 17-byte frame with id 2^32 - 1
C13_Witness ==
    /\ FrameHandled
    /\ lastOp.data.bytes =
         <<255, 16, 0, 1,  255, 255, 255, 255,  0, 0, 128, 63,
           255, 255, 255, 255,  9>>
    /\ MapHas(tickDataStore, UInt32(2885, 0))
    /\ MapGet(tickDataStore, UInt32(2885, 0)).messageType = 2
    /\ MapGet(tickDataStore, UInt32(2885, 0)).timestamp = UInt32(61696, 25939)

\* the decimal digits of the id in bytes 4..7 of a frame
FrameId(b) == StringUInt32(UInt32(b[5] + 256 * b[6], b[7] + 256 * b[8]))

\* the instruments whose securityId is the given string
Listed(digits) ==
    {i \in 1..Len(STOCK_INSTRUMENTS) :
        STOCK_INSTRUMENTS[i].securityId = digits}

\* C14: whatever id a decoded frame carries, the record made of it has the
\* instrument's symbol when the instrument list has the id and the string
\* "securityId:<id>" (<id> in decimal) when it has not, and that record is
\* stored and given to every registered sink whose stream is open.
C14_SymbolResolved ==
    [][FrameHandled' =>
        LET b == lastOp'.data.bytes
            id == UInt32(b[5] + 256 * b[6], b[7] + 256 * b[8])
            symbol ==
                IF Listed(FrameId(b)) # {}
                THEN STOCK_INSTRUMENTS[CHOOSE i \in Listed(FrameId(b)) : TRUE]
                        .symbol
                ELSE <<"securityId:">> \o FrameId(b)
        IN  /\ MapHas(tickDataStore', id)
            /\ MapGet(tickDataStore', id).symbol = symbol
            /\ (b = UnlistedFrame.bytes
                    => symbol = <<"securityId:", 2, 8, 8, 5>>)
            /\ (b = LtpFrame.bytes => symbol = <<"SYM", 1, ".NS">>)
            /\ \A sid \in DOMAIN sseClients :
                  ~controllers[sseClients[sid]].closed =>
                    controllers'[sseClients[sid]].received =
                        Append(controllers[sseClients[sid]].received,
                               [type |-> "tick",
                                data |-> MapGet(tickDataStore', id)])]_vars

\* the frame for the unlisted id 2885 was handled, its record is stored and
\* a sink was given the record with the placeholder symbol
C14_Witness ==
    /\ FrameHandled
    /\ lastOp.data = UnlistedFrame
    /\ MapHas(tickDataStore, UInt32(2885, 0))
    /\ \E c \in DOMAIN controllers :
          /\ controllers[c].received # <<>>
          /\ controllers[c].received[Len(controllers[c].received)].type
                = "tick"
          /\ controllers[c].received[Len(controllers[c].received)].data.symbol
                = <<"securityId:", 2, 8, 8, 5>>

\* ------------------------------------------------------------------- store
\* the keys of a Map
MapKeys(map) == {map[i].key : i \in 1..Len(map)}

\* the record handleMessage makes of a frame's bytes
FrameRecord(b) ==
    LET id == UInt32(b[5] + 256 * b[6], b[7] + 256 * b[8])
    IN  [securityId |-> id,
         symbol |-> IF Listed(FrameId(b)) # {}
                    THEN STOCK_INSTRUMENTS[CHOOSE i \in Listed(FrameId(b)) :
                                                TRUE].symbol
                    ELSE <<"securityId:">> \o FrameId(b),
         price |-> [sign |-> b[12] \div 128,
                    exponent |-> 2 * (b[12] % 128) + b[11] \div 128,
                    fraction |-> 65536 * (b[11] % 128) + 256 * b[10] + b[9]],
         timestamp |-> UInt32(b[13] + 256 * b[14], b[15] + 256 * b[16]),
         messageType |-> b[1],
         messageTypeLabel |->
            IF b[1] = 2 THEN <<"LTP">>
            ELSE IF b[1] = 6 THEN <<"QUOTE">>
            ELSE <<"TYPE_">> \o Digits(b[1])]

\* C15: the store starts empty and only a decoded frame changes it; after
\* the frame the store holds one entry per id it held before or the frame
\* carries, the frame's id maps to the record made of this frame, every
\* other id keeps its record, and a frame whose record is the one already
\* stored leaves the store as it was.
C15_LastWriteWins ==
    [][IF FrameHandled'
       THEN LET b == lastOp'.data.bytes
                rec == FrameRecord(b)
            IN  /\ MapKeys(tickDataStore') =
                        MapKeys(tickDataStore) \cup {rec.securityId}
                /\ Len(tickDataStore') = Cardinality(MapKeys(tickDataStore'))
                /\ MapGet(tickDataStore', rec.securityId) = rec
                /\ \A k \in MapKeys(tickDataStore) \ {rec.securityId} :
                      MapGet(tickDataStore', k) = MapGet(tickDataStore, k)
                /\ (/\ MapHas(tickDataStore, rec.securityId)
                    /\ MapGet(tickDataStore, rec.securityId) = rec)
                      => tickDataStore' = tickDataStore
       ELSE UNCHANGED tickDataStore]_vars

\* three ids are stored and the id stored first was written again, by a
\* frame of kind 6, after the other two were stored
C15_Witness ==
    /\ FrameHandled
    /\ Len(tickDataStore) = 3
    /\ lastOp.data.bytes[1] = 6
    /\ tickDataStore[1].key = UInt32(2885, 0)
    /\ tickDataStore[1].value = FrameRecord(lastOp.data.bytes)
    /\ tickDataStore[3].key = UInt32(0, 0)

\* the ids of the decoder specification's frames, and 7, which none carries
QueryIds ==
    {UInt32(id[1] + 256 * id[2], id[3] + 256 * id[4]) : id \in IdBytes}
        \cup {UInt32(7, 0)}

\* C16: for every unsigned 32-bit id, getTickData(id) is the one record
\* stored for the id when there is one, and absent when there is none.
C16_LookupById ==
    \A id \in QueryIds :
        getTickData(id) =
            IF MapHas(tickDataStore, id)
            THEN [kind |-> "TickData", value |-> MapGet(tickDataStore, id)]
            ELSE [kind |-> "undefined", value |-> <<>>]

\* ----------------------------------------------------------------- fan-out
\* the "initial" message for the store as it is
InitialMessage ==
    [type |-> "initial",
     data |-> [i \in 1..Len(tickDataStore) |-> tickDataStore[i].value]]

Failing == {id \in DOMAIN sseClients : controllers[sseClients[id]].closed}

\* C18: the publish pass of a decoded frame gives one "tick" message to
\* every registered sink that accepts it, whether or not another sink
\* fails, and nothing to any other controller; afterwards the registry is
\* the one before without exactly the sinks that failed, the frame's record
\* is stored and the connection is as it was.
C18_PublishPass ==
    [][FrameHandled' =>
        LET rec == FrameRecord(lastOp'.data.bytes)
            reached == {sseClients[id] : id \in DOMAIN sseClients \ Failing}
        IN  /\ DOMAIN sseClients' = DOMAIN sseClients \ Failing
            /\ \A id \in DOMAIN sseClients' :
                  sseClients'[id] = sseClients[id]
            /\ \A c \in DOMAIN controllers :
                  controllers'[c] =
                    IF c \in reached
                    THEN [controllers[c] EXCEPT
                            !.received =
                                Append(@, [type |-> "tick", data |-> rec])]
                    ELSE controllers[c]
            /\ MapGet(tickDataStore', rec.securityId) = rec
            /\ UNCHANGED connection]_vars

\* a pass removed a failing sink and gave the frame's record to another
\* sink, which stays registered
C18_Witness ==
    /\ FrameHandled
    /\ lastOp.removed # {}
    /\ \E id \in DOMAIN sseClients :
          controllers[sseClients[id]].received =
            <<[type |-> "tick", data |-> FrameRecord(lastOp.data.bytes)]>>

\* C19: calling a subscriber's unsubscribe function again, or after a
\* failed publish removed the subscriber, changes neither the registry nor
\* anything else.
C19_UnsubscribeIdempotent ==
    [][\A c \in DOMAIN controllers :
        (c \in released /\ Unsubscribe(c))
            => UNCHANGED <<ticks, connection>>]_vars

\* ------------------------------------------------------------------ status
\* the connection state: of the transport the handle names, and
\* "Disconnected" when it names none
ConnectionState ==
    IF ws = NULL THEN "Disconnected"
    ELSE IF sockets[ws].readyState = "CONNECTING" THEN "Connecting"
    ELSE IF sockets[ws].readyState = "OPEN" THEN "Open"
    ELSE "Closing"

\* a connect attempt created a transport (and closeSocket() was not called
\* since)
Attempted == lifecycle \in {"running", "lost"}

\* C20: once a connect attempt was made the status is never
\* "not_initialized": it is "connecting" in Connecting, "open" in Open and
\* "closed" in Disconnected or Closing.
C20_StatusQuery ==
    Attempted =>
        getSocketStatus =
            IF ConnectionState = "Connecting" THEN "connecting"
            ELSE IF ConnectionState = "Open" THEN "open"
            ELSE "closed"

\* --------------------------------------------------------------------- C21
\* the names under which a handler calls connectWebSocket()
ConnectOps == {"autoInit", "initDhanSocket", "timer"}

\* C21: when the client id or the access token is absent, a call that reaches
\* connect() ends in a throw and changes nothing of the connection: no
\* transport is created, the connecting flag stays false and no reconnect
\* timer is scheduled.
C21_MissingCredentials ==
    [][(~validateEnv /\ lastOp'.op \in ConnectOps)
          => /\ lastOp'.threw
             /\ ~lastOp'.created
             /\ sockets' = <<>>
             /\ ws' = NULL
             /\ ~isConnecting'
             /\ timers' = {}
             /\ reconnectTimer' = NULL
             /\ UNCHANGED <<ws, isConnecting, sockets, timers, reconnectTimer,
                            reconnectDelay>>]_vars

C21_Witness ==
    /\ ~clientId
    /\ accessToken
    /\ lastOp.op = "initDhanSocket"
    /\ lastOp.threw
    /\ ws = NULL

\* --------------------------------------------------------------------- C22
\* C22: with an instrument that lacks its securityId or its exchange, no
\* subscribe and no mode-set message is ever sent on any transport, and an
\* open handler that gets as far as the subscription ends in the
\* configuration error with nothing sent.
C22_NothingSentWhenMalformed ==
    /\ [](~validateInstruments
            => \A t \in DOMAIN sockets : sockets[t].sent = <<>>)
    /\ [][(~validateInstruments /\ lastOp'.op = "open"
             /\ lastOp'.now # <<>> /\ isMarketOpen(lastOp'.now))
             => lastOp'.threw]_vars

C22_Witness ==
    /\ Len(STOCK_INSTRUMENTS) = 2
    /\ STOCK_INSTRUMENTS[1] = Instrument(1)
    /\ STOCK_INSTRUMENTS[2].exchange = ""
    /\ lastOp.op = "open"
    /\ lastOp.threw
    /\ ws # NULL
    /\ sockets[ws].readyState = "OPEN"
    /\ sockets[ws].sent = <<>>

\* --------------------------------------------------------------------- C23
\* C23 (as claimed): with a malformed instrument in the list no transport is
\* ever created and the connection never reaches Open, whatever the clock.
C23_MalformedNeverConnects ==
    ~validateInstruments
        => /\ sockets = <<>>
           /\ ws = NULL
           /\ lifecycle = "initial"

\* --------------------------------------------------------------------- C24
\* the minute of the IST day at a UTC instant, wrapped at midnight
IstMinuteOfDay(now) == (now[1] * 60 + now[2] + 330) % 1440

\* an open handled at the instant lastOp.now, the list being well formed and
\* the transport ready: the subscription goes out iff isMarketOpen() is true
OpenedAt == lastOp.op = "open" /\ lastOp.now # <<>> /\ ws # NULL

Subscribed == sockets[ws].sent # <<>>

\* C24: for every UTC hour and minute the subscription is sent on open
\* exactly when the IST minute of the day lies in 09:15..15:30, both ends
\* included.
C24_TradingWindow ==
    OpenedAt =>
        (Subscribed <=> (IstMinuteOfDay(lastOp.now) >= 555
                         /\ IstMinuteOfDay(lastOp.now) <= 930))

\* opened at 10:00 UTC, which is 15:30 IST, and subscribed
C24_Witness == OpenedAt /\ lastOp.now = <<10, 0>> /\ Subscribed

\* --------------------------------------------------------------------- C28
Disagree(now) == isMarketOpenLegacy(now) # Subscribed

\* C28: every instant at which the earlier revision's window test differs
\* from the latest one's lies at most 30 minutes after 09:15 IST or at most
\* 30 minutes after 15:30 IST.
C28_LegacyDisagreement ==
    (OpenedAt /\ Disagree(lastOp.now)) =>
        \/ IstMinuteOfDay(lastOp.now) - 555 \in 0..30
        \/ IstMinuteOfDay(lastOp.now) - 930 \in 0..30

\* opened at 03:50 UTC, 09:20 IST: subscribed, the earlier revision says
\* closed
C28_Witness ==
    /\ OpenedAt
    /\ lastOp.now = <<3, 50>>
    /\ Subscribed
    /\ ~isMarketOpenLegacy(lastOp.now)

\* --------------------------------------------------------------------- C25
\* "TYPE_<n>" with n in decimal, for a byte
TypeLabel(n) ==
    IF n < 10 THEN <<"TYPE_", n>>
    ELSE IF n < 100 THEN <<"TYPE_", n \div 10, n % 10>>
    ELSE <<"TYPE_", n \div 100, (n \div 10) % 10, n % 10>>

KindLabel(n) ==
    IF n = 2 THEN <<"LTP">> ELSE IF n = 6 THEN <<"QUOTE">> ELSE TypeLabel(n)

\* C25: whatever the kind byte n of a decoded frame, 0..255, the record that
\* is stored and given to every registered sink with an open stream has
\* messageType n and the label "LTP" for 2, "QUOTE" for 6 and "TYPE_<n>"
\* for every other n.
C25_EveryKindLabelled ==
    [][FrameHandled' =>
        LET b == lastOp'.data.bytes
            id == UInt32(b[5] + 256 * b[6], b[7] + 256 * b[8])
        IN  /\ MapHas(tickDataStore', id)
            /\ MapGet(tickDataStore', id).messageType = b[1]
            /\ MapGet(tickDataStore', id).messageTypeLabel = KindLabel(b[1])
            /\ \A sid \in DOMAIN sseClients :
                  ~controllers[sseClients[sid]].closed =>
                    LET got == controllers'[sseClients[sid]].received
                    IN  /\ Len(got) = Len(controllers[sseClients[sid]].received) + 1
                        /\ got[Len(got)].type = "tick"
                        /\ got[Len(got)].data.messageType = b[1]
                        /\ got[Len(got)].data.messageTypeLabel
                              = KindLabel(b[1])]_vars

\* a frame of kind 255 was stored and given to a sink as "TYPE_255"
C25_Witness ==
    /\ FrameHandled
    /\ lastOp.data.bytes[1] = 255
    /\ tickDataStore[1].value.messageTypeLabel = <<"TYPE_", 2, 5, 5>>
    /\ \E c \in DOMAIN controllers :
          controllers[c].received =
            <<[type |-> "tick", data |-> tickDataStore[1].value]>>

\* --------------------------------------------------------------------- C26
\* what a transport event must leave alone when its transport was closed by
\* closeSocket(): handle, flag, timer, delay, store, registry, subscribers,
\* and what was sent on every transport that still exists
ClientUntouched ==
    /\ UNCHANGED <<ws, isConnecting, reconnectTimer, reconnectDelay, timers,
                   ticks>>
    /\ \A t \in DOMAIN sockets' : sockets'[t].sent = sockets[t].sent

TransportOps == {"open", "message", "error", "close"}

\* C26: closeSocket() leaves no handle, the connecting flag false and no
\* timer handle, schedules nothing and detaches the transport it closed;
\* from then until a transport is created every transport event leaves the
\* client untouched, and so does every later event of a detached transport.
C26_CloseDetaches ==
    [][/\ lastOp'.op = "closeSocket"
            => /\ ws' = NULL
               /\ ~isConnecting'
               /\ reconnectTimer' = NULL
               /\ timers' \subseteq timers
               /\ ws # NULL => ~sockets'[ws].listeners
       /\ (lifecycle = "stopped" /\ lastOp'.op \in TransportOps)
            => ClientUntouched
       /\ \A t \in DOMAIN sockets :
             (/\ ~sockets[t].listeners
              /\ \/ CloseEvent(t)
                 \/ \E data \in SampleData : MessageEvent(t, data)
                 \/ \E now \in LifecycleClock : OpenEvent(t, now))
                => ClientUntouched]_vars

\* a tick frame arrived on the transport closeSocket() had closed, with a
\* subscriber waiting: nothing was stored
C26_Witness ==
    /\ lifecycle = "stopped"
    /\ ws = NULL
    /\ lastOp.op = "message"
    /\ lastOp.data = LtpFrame
    /\ tickDataStore = <<>>
    /\ LiveSink

\* --------------------------------------------------------------------- C27
\* seq is the beginning of longer
IsPrefix(seq, longer) ==
    /\ Len(seq) <= Len(longer)
    /\ \A i \in 1..Len(seq) : seq[i] = longer[i]

\* C27: a decoded frame changes the store at its id and nowhere else, and
\* every registered sink whose stream is open is given, at the end of what
\* it was given before, one "tick" message with the record the store now
\* holds; no other step gives a "tick", no step takes away or reorders what
\* a sink was given, and the store holds a record for every id a sink was
\* given a "tick" for.
C27_OneWriteOneTick ==
    /\ [][FrameHandled' =>
            LET b == lastOp'.data.bytes
                id == UInt32(b[5] + 256 * b[6], b[7] + 256 * b[8])
            IN  /\ MapKeys(tickDataStore') = MapKeys(tickDataStore) \cup {id}
                /\ Len(tickDataStore') = Cardinality(MapKeys(tickDataStore'))
                /\ \A k \in MapKeys(tickDataStore) \ {id} :
                      MapGet(tickDataStore', k) = MapGet(tickDataStore, k)
                /\ MapGet(tickDataStore', id) = FrameRecord(b)
                /\ \A sid \in DOMAIN sseClients :
                      ~controllers[sseClients[sid]].closed =>
                        controllers'[sseClients[sid]].received =
                          Append(controllers[sseClients[sid]].received,
                                 [type |-> "tick",
                                  data |-> MapGet(tickDataStore', id)])]_vars
    /\ [][\A c \in DOMAIN controllers :
            /\ IsPrefix(controllers[c].received, controllers'[c].received)
            /\ ~FrameHandled' =>
                  controllers'[c].received = controllers[c].received]_vars
    /\ [](\A c \in DOMAIN controllers :
            \A i \in 1..Len(controllers[c].received) :
                controllers[c].received[i].type = "tick" =>
                    MapHas(tickDataStore,
                           controllers[c].received[i].data.securityId))

\* a sink was given the two prices of instrument 1 in the order of the frames
C27_Witness ==
    /\ FrameHandled
    /\ lastOp.data = LtpFrameNext
    /\ \E c \in DOMAIN controllers :
          controllers[c].received =
            <<[type |-> "tick", data |-> FrameRecord(LtpFrame.bytes)],
              [type |-> "tick", data |-> FrameRecord(LtpFrameNext.bytes)]>>
    /\ MapGet(tickDataStore, UInt32(1, 0)) = FrameRecord(LtpFrameNext.bytes)

\* --------------------------------------------------------------------- C29
\* the message m holds a record of the id
Carries(m, id) ==
    IF m.type = "tick" THEN m.data.securityId = id
    ELSE \E j \in 1..Len(m.data) : m.data[j].securityId = id

\* the record of the id in a message that carries it
Carried(m, id) ==
    IF m.type = "tick" THEN m.data
    ELSE m.data[CHOOSE j \in 1..Len(m.data) : m.data[j].securityId = id]

\* the ids a sequence of messages holds records of
IdsOf(msgs) ==
    UNION {IF msgs[i].type = "tick" THEN {msgs[i].data.securityId}
           ELSE {msgs[i].data[j].securityId : j \in 1..Len(msgs[i].data)} :
           i \in 1..Len(msgs)}

\* the last record of the id among the messages
LastRecord(msgs, id) ==
    LET last == CHOOSE i \in 1..Len(msgs) :
                    /\ Carries(msgs[i], id)
                    /\ \A k \in (i + 1)..Len(msgs) : ~Carries(msgs[k], id)
    IN  Carried(msgs[last], id)

\* C29: for every registered sink and every id, the sink was given a record
\* of the id exactly when the store holds one, and the last one it was given
\* is the one the store holds.
C29_SinkMatchesStore ==
    \A sid \in DOMAIN sseClients :
        LET got == controllers[sseClients[sid]].received
        IN  /\ IdsOf(got) = MapKeys(tickDataStore)
            /\ \A id \in IdsOf(got) :
                  LastRecord(got, id) = MapGet(tickDataStore, id)

\* a sink that was given the store's two records when it subscribed and
\* the second price of instrument 1 afterwards
C29_Witness ==
    \E sid \in DOMAIN sseClients :
        LET got == controllers[sseClients[sid]].received
        IN  /\ Len(got) = 2
            /\ got[1].type = "initial"
            /\ Len(got[1].data) = 2
            /\ got[2] = [type |-> "tick",
                         data |-> FrameRecord(LtpFrameNext.bytes)]
            /\ MapGet(tickDataStore, UInt32(1, 0))
                    = FrameRecord(LtpFrameNext.bytes)

\* --------------------------------------------------------------------- C30
\* C30: a close event that is handled removes the transport the handle
\* names; an open event that is handled opens the transport the handle
\* names and touches no other; a message that changes the store arrives
\* while the handle names a transport that is open or closing.
C30_HandledByCurrent ==
    [][/\ (lastOp'.op = "close" /\ lastOp'.delay # NULL)
            => /\ ws # NULL
               /\ DOMAIN sockets \ DOMAIN sockets' = {ws}
       /\ (lastOp'.op = "open" /\ lastOp'.now # <<>>)
            => /\ ws # NULL
               /\ sockets[ws].readyState = "CONNECTING"
               /\ sockets'[ws].readyState = "OPEN"
               /\ \A t \in DOMAIN sockets \ {ws} : sockets'[t] = sockets[t]
       /\ (lastOp'.op = "open" /\ lastOp'.now = <<>>)
            => UNCHANGED <<ws, isConnecting, reconnectDelay>>
       /\ (lastOp'.op = "close" /\ lastOp'.delay = NULL)
            => UNCHANGED <<ws, isConnecting, reconnectTimer, timers>>
       /\ (lastOp'.op = "message" /\ tickDataStore' # tickDataStore)
            => /\ ws # NULL
               /\ sockets[ws].readyState \in {"OPEN", "CLOSING"}]_vars

\* the transport closeSocket() had closed emitted its close event while the
\* handle named a newer transport, still connecting
C30_Witness ==
    /\ lastOp.op = "close"
    /\ lastOp.delay = NULL
    /\ ws # NULL
    /\ sockets[ws].readyState = "CONNECTING"
    /\ isConnecting
    /\ reconnectTimer = NULL

\* --------------------------------------------------------------------- C31
\* C31: what was sent on a transport changes only in the step that handles
\* its open event, from nothing to the whole subscription sequence, and
\* only when the market is open at that instant; on a transport opened
\* while the market was closed nothing is sent in that step or in any
\* later one.
C31_SubscribedOnlyOnOpen ==
    [][\A t \in DOMAIN sockets \cap DOMAIN sockets' :
        /\ sockets'[t].sent # sockets[t].sent
              => /\ lastOp'.op = "open"
                 /\ lastOp'.now # <<>>
                 /\ isMarketOpen(lastOp'.now)
                 /\ t = ws
                 /\ sockets[t].readyState = "CONNECTING"
                 /\ sockets'[t].readyState = "OPEN"
                 /\ sockets[t].sent = <<>>
                 /\ sockets'[t].sent =
                      <<SubscribeMsg(STOCK_INSTRUMENTS), ModeMsg>>
        /\ sockets[t].readyState # "CONNECTING"
              => sockets'[t].sent = sockets[t].sent
        /\ sockets'[t].readyState = "CONNECTING"
              => sockets[t].readyState = "CONNECTING"]_vars

\* a transport opened at 03:44 UTC, 09:14 IST, has had an error event since
\* and nothing was sent on it
C31_Witness ==
    /\ lastOp.op = "error"
    /\ ws # NULL
    /\ sockets[ws].readyState = "OPEN"
    /\ sockets[ws].sent = <<>>
    /\ validateInstruments

\* --------------------------------------------------------------------- C32
\* C32 (as claimed): a subscribeToTicks call adds one entry to the registry
\* and leaves every other entry as it was, and a subscriber's unsubscribe
\* function leaves every other subscriber's entry as it was.
C32_DistinctIds ==
    [][/\ lastOp'.op = "subscribeToTicks"
            => /\ Cardinality(DOMAIN sseClients')
                    = Cardinality(DOMAIN sseClients) + 1
               /\ \A id \in DOMAIN sseClients :
                     /\ id \in DOMAIN sseClients'
                     /\ sseClients'[id] = sseClients[id]
       /\ \A c \in DOMAIN controllers :
            Unsubscribe(c)
                => \A id \in DOMAIN sseClients :
                     sseClients[id] # c
                        => /\ id \in DOMAIN sseClients'
                           /\ sseClients'[id] = sseClients[id]]_vars

\* --------------------------------------------------------------------- C33
\* C33: every key of the tick store maps to a record whose securityId is
\* the key, no key is held twice, and no step removes a key: the keys after
\* a step include the keys before it.
C33_StoreOnlyGrows ==
    /\ [](\A i \in 1..Len(tickDataStore) :
            /\ tickDataStore[i].value.securityId = tickDataStore[i].key
            /\ \A j \in 1..Len(tickDataStore) :
                  tickDataStore[j].key = tickDataStore[i].key => j = i)
    /\ [][MapKeys(tickDataStore) \subseteq MapKeys(tickDataStore')]_vars

\* the record of instrument 1 is still stored after closeSocket()
C33_Witness ==
    /\ lastOp.op = "closeSocket"
    /\ lifecycle = "stopped"
    /\ ws = NULL
    /\ MapHas(tickDataStore, UInt32(1, 0))
    /\ MapGet(tickDataStore, UInt32(1, 0)).securityId = UInt32(1, 0)

\* --------------------------------------------------------------------- C34
\* C34 (as claimed): a reconnect timer that fires while the handle names a
\* transport that is connecting or open creates no transport and leaves the
\* handle, the connecting flag, the reconnect delay and every transport as
\* they were.
C34_TimerNoOp ==
    [][(/\ lastOp'.op = "timer"
        /\ ws # NULL
        /\ sockets[ws].readyState \in {"CONNECTING", "OPEN"})
          => /\ ~lastOp'.created
             /\ UNCHANGED <<ws, isConnecting, reconnectDelay, sockets>>]_vars

====
